---- MODULE Spec2Model ----
(***************************************************************************)
(* ASCII duplicate detector: find_duplicates(char *str) of                 *)
(* src/find_duplicates.c and its driver src/main.c.                        *)
(*                                                                         *)
(* One call of find_duplicates is modelled as a process with a program     *)
(* counter.  Bytes are integers 0..255.  The sink (file descriptor 1) is   *)
(* modelled by the log of write() calls: what was requested and what       *)
(* write() returned.                                                       *)
(***************************************************************************)
EXTENDS Integers, Sequences, FiniteSets

VARIABLES
    str,                \* the argument: [null : BOOLEAN, chars : Seq(char)], the
                        \* char values before the terminating NUL
    pc,                 \* "entry", "scan", "closing", "done"
    pos,                \* number of input characters consumed (str - str0)
    character_tracker,  \* uint8_t character_tracker[64]
    result,             \* char result[RESULT_BUFFER_SIZE]
    output_idx,         \* uint16_t output_idx
    is_first_duplicate, \* char is_first_duplicate
    wlog,               \* the write() calls of this call so far: [data, n, at]
    ret,                \* the value returned (meaningful when pc = "done")
    calls               \* the calls that returned before this one:
                        \* [str, ok, out, ret]

vars == <<str, pc, pos, character_tracker, result, output_idx,
          is_first_duplicate, wlog, ret, calls>>

-----------------------------------------------------------------------------
(* Program constants *)

RESULT_BUFFER_SIZE == 256
TRACKER_SIZE == 64
VISIBLE_MIN == 32
VISIBLE_MAX == 126
DIAG_COUNT == 31

LBRACE == 123
RBRACE == 125
COMMA == 44
SPACE == 32
NEWLINE == 10
NUL == 0

\* "Input string is null or empty\n": the 30 characters of the literal
DiagnosticText ==
    << 73, 110, 112, 117, 116, 32, 115, 116, 114, 105, 110, 103, 32, 105, 115,
       32, 110, 117, 108, 108, 32, 111, 114, 32, 101, 109, 112, 116, 121,
       NEWLINE >>

\* The array the literal denotes: its characters and the terminating NUL.
DiagnosticLiteral == DiagnosticText \o <<NUL>>

\* Content of a cell of result[] that was never stored to.
UNINIT == -1

-----------------------------------------------------------------------------
(* Bounds of the model *)

\* Longest input of the exhaustive family.
MaxLen == 4
\* The long inputs double the characters lo..126 for lo in 32..32+LongSpan.
LongSpan == 12

-----------------------------------------------------------------------------
(* Inputs *)

\* The char values of the exhaustive family: 31 (below the range), ' ', 'a',
\* 'b', '~', DEL (above the range) and -56 (the byte 200 as a signed char).
ShortBytes == {31, 32, 97, 98, 126, 127, -56}

RECURSIVE SeqsUpTo(_, _)
SeqsUpTo(S, n) ==
    IF n = 0 THEN {<<>>}
    ELSE LET shorter == SeqsUpTo(S, n - 1)
         IN  shorter \cup {Append(s, b) : s \in {t \in shorter : Len(t) = n - 1}, b \in S}

\* lo, lo, lo+1, lo+1, ..., hi, hi
Doubled(lo, hi) ==
    [k \in 1..(2 * (hi - lo + 1)) |-> lo + ((k - 1) \div 2)]

\* lo, lo+1, ..., hi, lo, lo+1, ..., hi
Repeated(lo, hi) ==
    [k \in 1..(2 * (hi - lo + 1)) |-> lo + ((k - 1) % (hi - lo + 1))]

\* The driver's input: every printable character doubled, ascending.
MainInput == Doubled(32, 126)

LongInputs ==
    {Doubled(lo, VISIBLE_MAX) : lo \in VISIBLE_MIN..(VISIBLE_MIN + LongSpan)}
    \cup {Repeated(lo, VISIBLE_MAX) : lo \in {VISIBLE_MIN + LongSpan - 2}}
    \cup {Doubled(VISIBLE_MIN + 10, VISIBLE_MAX) \o <<VISIBLE_MAX, -56, -56, VISIBLE_MAX + 1, VISIBLE_MAX + 1>>}

Inputs ==
    {[null |-> TRUE, chars |-> <<>>]}
    \cup {[null |-> FALSE, chars |-> s] : s \in SeqsUpTo(ShortBytes, MaxLen) \cup LongInputs}

-----------------------------------------------------------------------------
(* Helpers of find_duplicates *)

\* Mutant: only the null pointer is refused.
IsInvalidInput_NullOnly(s) == s.null

\* line 60: str == NULL || *str == '\0'
IsInvalidInput(s) == s.null \/ Len(s.chars) = 0

\* Mutant: DEL is taken for a visible character.
IsVisible_Through127(character) == character >= VISIBLE_MIN /\ character <= VISIBLE_MAX + 1

\* line 87: character >= 32 && character <= 126
IsVisible(character) == character >= VISIBLE_MIN /\ character <= VISIBLE_MAX

\* Mutant: eight characters to a byte, so c and c + 4 share their bits.
ByteIndex_Shift3(character) == character \div 8

\* line 91: character >> 2
ByteIndex(character) == character \div 4

\* Mutant: the mask keeps three bits of the character.
BitPosition_Mask7(character) == character % 8

\* line 92: character & 3
BitPosition(character) == character % 4

\* line 95: (uint8_t)(1 << bit_position)
SeenMask(character) == (2 ^ BitPosition(character)) % 256

\* Mutant: the shift is one short, the mask is a seen bit of the same byte.
DuplicateMask_Shift3(character) == (SeenMask(character) * 8) % 256

\* Mutant: the shift leaves the byte, the mask is 0.
DuplicateMask_Shift8(character) == (SeenMask(character) * 256) % 256

\* line 97: (uint8_t)(seen_mask << 4)
DuplicateMask(character) == (SeenMask(character) * 16) % 256

\* byte & mask, for a mask with one bit set (0 for the mask 0)
And(byte, mask) == IF mask = 0 THEN 0 ELSE ((byte \div mask) % 2) * mask

\* byte | mask, for a mask with at most one bit set
Or(byte, mask) == IF And(byte, mask) = 0 THEN byte + mask ELSE byte

\* Mutant: the check asks whether the buffer is full, not whether 3 bytes fit.
EntryNeedsFlush_NoMargin(idx) == idx >= RESULT_BUFFER_SIZE

\* Mutant: the check leaves room for the character but not the separator.
EntryNeedsFlush_CharacterOnly(idx) == idx + 1 >= RESULT_BUFFER_SIZE

\* line 114: output_idx + 3 >= RESULT_BUFFER_SIZE
EntryNeedsFlush(idx) == idx + 3 >= RESULT_BUFFER_SIZE

\* Mutant: the buffer is flushed only when "}\n" would not fit.
ClosingNeedsFlush_OnlyWhenExceeding(idx) == idx + 2 > RESULT_BUFFER_SIZE

\* line 132: output_idx + 2 >= RESULT_BUFFER_SIZE
ClosingNeedsFlush(idx) == idx + 2 >= RESULT_BUFFER_SIZE

\* lines 115, 133, 140: write(...) == -1
WriteFailed(r) == r = -1

\* result[k] = b  (a store outside the array is not modelled as a store)
Store(buf, k, b) == IF k \in DOMAIN buf THEN [buf EXCEPT ![k] = b] ELSE buf

\* The count bytes write() is handed: buf[0 .. count-1].  A read past the end
\* of the array yields no byte that was stored.
Chunk(buf, count) ==
    [k \in 1..count |-> IF (k - 1) \in DOMAIN buf THEN buf[k - 1] ELSE UNINIT]

\* What write(1, buf, count) can return: -1, a short count, or count.
WriteReturns(count) ==
    {-1, count} \cup {n \in {1, count \div 2, count - 1} : 0 < n /\ n < count}

\* Mutant: the separator is stored as " ,".
EntryBuf_SeparatorSwapped(buf, idx, first, character) ==
    IF first = 0
    THEN Store(Store(Store(buf, idx, SPACE), idx + 1, COMMA), idx + 2, character)
    ELSE Store(buf, idx, character)

\* lines 120-126: the separator unless first, then the character
EntryBuf(buf, idx, first, character) ==
    IF first = 0
    THEN Store(Store(Store(buf, idx, COMMA), idx + 1, SPACE), idx + 2, character)
    ELSE Store(buf, idx, character)

EntryIdx(idx, first) == IF first = 0 THEN idx + 3 ELSE idx + 1

-----------------------------------------------------------------------------
(* The call *)

Init ==
    /\ str \in Inputs
    /\ pc = "entry"
    /\ pos = 0
    /\ character_tracker = [b \in 0..(TRACKER_SIZE - 1) |-> 0]
    /\ result = [k \in 0..(RESULT_BUFFER_SIZE - 1) |-> UNINIT]
    /\ output_idx = 0
    /\ is_first_duplicate = 1
    /\ wlog = <<>>
    /\ ret = 0
    /\ calls = <<>>

\* lines 60-67: the diagnostic, then -1 whatever write() returned
InvalidInput ==
    /\ pc = "entry"
    /\ IsInvalidInput(str)
    /\ \E r \in WriteReturns(DIAG_COUNT) :
         wlog' = Append(wlog, [data |-> SubSeq(DiagnosticLiteral, 1, DIAG_COUNT),
                               n |-> r, at |-> "diagnostic"])
    /\ ret' = -1
    /\ pc' = "done"
    /\ UNCHANGED <<calls, str, pos, character_tracker, result, output_idx, is_first_duplicate>>

\* Mutant: the array is declared without its initializer and keeps what the
\* stack held.
FreshTracker_Uninitialised == character_tracker

\* line 72: uint8_t character_tracker[64] = {0}
FreshTracker == [b \in 0..(TRACKER_SIZE - 1) |-> 0]

\* Mutant: the flag starts at 0.
Begin_FlagCleared ==
    /\ pc = "entry"
    /\ ~IsInvalidInput(str)
    /\ character_tracker' = FreshTracker
    /\ output_idx' = 1
    /\ result' = Store(result, 0, LBRACE)
    /\ is_first_duplicate' = 0
    /\ pc' = "scan"
    /\ UNCHANGED <<calls, str, pos, wlog, ret>>

\* lines 72-80: the locals, and '{' into the buffer.  result[] has no
\* initializer: its other cells keep what the stack held.
Begin ==
    /\ pc = "entry"
    /\ ~IsInvalidInput(str)
    /\ character_tracker' = FreshTracker
    /\ output_idx' = 1
    /\ result' = Store(result, 0, LBRACE)
    /\ is_first_duplicate' = 1
    /\ pc' = "scan"
    /\ UNCHANGED <<calls, str, pos, wlog, ret>>

\* line 82: *str != '\0'
AtCharacter == pc = "scan" /\ pos < Len(str.chars)

\* line 84: (uint8_t)(unsigned char)c
ToUnsigned(c) == (c + 256) % 256

\* line 84: character = (unsigned char)(*str)
Character == ToUnsigned(str.chars[pos + 1])

\* lines 87, 130: a character outside 32..126
SkipCharacter ==
    /\ AtCharacter
    /\ ~IsVisible(Character)
    /\ pos' = pos + 1
    /\ UNCHANGED <<calls, str, pc, character_tracker, result, output_idx,
                   is_first_duplicate, wlog, ret>>

\* lines 100-103, 130: the first occurrence
MarkSeen ==
    /\ AtCharacter
    /\ IsVisible(Character)
    /\ And(character_tracker[ByteIndex(Character)], SeenMask(Character)) = 0
    /\ character_tracker' =
         [character_tracker EXCEPT ![ByteIndex(Character)] = Or(@, SeenMask(Character))]
    /\ pos' = pos + 1
    /\ UNCHANGED <<calls, str, pc, result, output_idx, is_first_duplicate, wlog, ret>>

\* Mutant: the branch that has nothing to report skips the str++.
AlreadyReported_NoAdvance ==
    /\ pc = "scan" /\ pos < Len(str.chars)
    /\ (ToUnsigned(str.chars[pos + 1]) >= VISIBLE_MIN /\ ToUnsigned(str.chars[pos + 1]) <= VISIBLE_MAX)
    /\ And(character_tracker[ByteIndex(ToUnsigned(str.chars[pos + 1]))],
           SeenMask(ToUnsigned(str.chars[pos + 1]))) # 0
    /\ And(character_tracker[ByteIndex(ToUnsigned(str.chars[pos + 1]))],
           DuplicateMask(ToUnsigned(str.chars[pos + 1]))) # 0
    /\ UNCHANGED vars

\* lines 108 (else), 130: a third or later occurrence
AlreadyReported ==
    /\ AtCharacter
    /\ IsVisible(Character)
    /\ And(character_tracker[ByteIndex(Character)], SeenMask(Character)) # 0
    /\ And(character_tracker[ByteIndex(Character)], DuplicateMask(Character)) # 0
    /\ pos' = pos + 1
    /\ UNCHANGED <<calls, str, pc, character_tracker, result, output_idx,
                   is_first_duplicate, wlog, ret>>

\* lines 108-127, 130: the second occurrence, with room in the buffer
EmitDuplicate ==
    /\ AtCharacter
    /\ IsVisible(Character)
    /\ And(character_tracker[ByteIndex(Character)], SeenMask(Character)) # 0
    /\ And(character_tracker[ByteIndex(Character)], DuplicateMask(Character)) = 0
    /\ ~EntryNeedsFlush(output_idx)
    /\ character_tracker' =
         [character_tracker EXCEPT ![ByteIndex(Character)] = Or(@, DuplicateMask(Character))]
    /\ result' = EntryBuf(result, output_idx, is_first_duplicate, Character)
    /\ output_idx' = EntryIdx(output_idx, is_first_duplicate)
    /\ is_first_duplicate' = 0
    /\ pos' = pos + 1
    /\ UNCHANGED <<calls, str, pc, wlog, ret>>

\* lines 108-127, 130: the second occurrence, the buffer is flushed first
EmitDuplicateFlush ==
    /\ AtCharacter
    /\ IsVisible(Character)
    /\ And(character_tracker[ByteIndex(Character)], SeenMask(Character)) # 0
    /\ And(character_tracker[ByteIndex(Character)], DuplicateMask(Character)) = 0
    /\ EntryNeedsFlush(output_idx)
    /\ character_tracker' =
         [character_tracker EXCEPT ![ByteIndex(Character)] = Or(@, DuplicateMask(Character))]
    /\ \E r \in WriteReturns(output_idx) :
         /\ wlog' = Append(wlog, [data |-> Chunk(result, output_idx), n |-> r, at |-> "scan"])
         /\ IF WriteFailed(r)
            THEN /\ ret' = -1
                 /\ pc' = "done"
                 /\ UNCHANGED <<pos, result, output_idx, is_first_duplicate>>
            ELSE /\ result' = EntryBuf(result, 0, is_first_duplicate, Character)
                 /\ output_idx' = EntryIdx(0, is_first_duplicate)
                 /\ is_first_duplicate' = 0
                 /\ pos' = pos + 1
                 /\ UNCHANGED <<pc, ret>>
    /\ UNCHANGED <<calls, str>>

\* lines 82, 132-137: the end of the input, room for "}\n"
EndOfScan ==
    /\ pc = "scan"
    /\ pos >= Len(str.chars)
    /\ ~ClosingNeedsFlush(output_idx)
    /\ pc' = "closing"
    /\ UNCHANGED <<calls, str, pos, character_tracker, result, output_idx,
                   is_first_duplicate, wlog, ret>>

\* lines 82, 132-137: the end of the input, the buffer is flushed first
EndOfScanFlush ==
    /\ pc = "scan"
    /\ pos >= Len(str.chars)
    /\ ClosingNeedsFlush(output_idx)
    /\ \E r \in WriteReturns(output_idx) :
         /\ wlog' = Append(wlog, [data |-> Chunk(result, output_idx), n |-> r, at |-> "closing"])
         /\ IF WriteFailed(r)
            THEN /\ ret' = -1
                 /\ pc' = "done"
                 /\ UNCHANGED output_idx
            ELSE /\ output_idx' = 0
                 /\ pc' = "closing"
                 /\ UNCHANGED ret
    /\ UNCHANGED <<calls, str, pos, character_tracker, result, is_first_duplicate>>

\* lines 138-143: "}\n", the final write, the return value
FinalFlush ==
    /\ pc = "closing"
    /\ result' = Store(Store(result, output_idx, RBRACE), output_idx + 1, NEWLINE)
    /\ output_idx' = output_idx + 2
    /\ \E r \in WriteReturns(output_idx + 2) :
         /\ wlog' = Append(wlog, [data |-> Chunk(result', output_idx + 2), n |-> r, at |-> "final"])
         /\ ret' = IF WriteFailed(r) THEN -1 ELSE 0
    /\ pc' = "done"
    /\ UNCHANGED <<calls, str, pos, character_tracker, is_first_duplicate>>

Next ==
    \/ InvalidInput
    \/ Begin
    \/ SkipCharacter
    \/ MarkSeen
    \/ AlreadyReported
    \/ EmitDuplicate
    \/ EmitDuplicateFlush
    \/ EndOfScan
    \/ EndOfScanFlush
    \/ FinalFlush

Spec == Init /\ [][Next]_vars

-----------------------------------------------------------------------------
(* What the sink holds, and what the report should be *)

RECURSIVE RequestedUpTo(_)
RequestedUpTo(n) == IF n = 0 THEN <<>> ELSE RequestedUpTo(n - 1) \o wlog[n].data

\* The bytes find_duplicates handed to write(), in order.
Requested == RequestedUpTo(Len(wlog))

\* The bytes of one write() that reached the sink.
Accepted(w) == IF w.n > 0 THEN SubSeq(w.data, 1, w.n) ELSE <<>>

RECURSIVE SinkUpTo(_)
SinkUpTo(n) == IF n = 0 THEN <<>> ELSE SinkUpTo(n - 1) \o Accepted(wlog[n])

\* The bytes in the sink, in order.
Sink == SinkUpTo(Len(wlog))

\* A write that transferred every byte it was handed.
Complete(w) == w.n = Len(w.data)

AllWritesComplete == \A k \in 1..Len(wlog) : Complete(wlog[k])

\* The code (0..255) of the k-th input character.
Code(k) == (str.chars[k] + 256) % 256

Printable(c) == c \in 32..126

\* How often the code c occurs among the first n input characters.
Occurrences(c, n) == Cardinality({j \in 1..n : Code(j) = c})

\* The printable codes whose second occurrence is among the input characters
\* a..b, in the order of these second occurrences.
RECURSIVE SecondOccurrencesIn(_, _)
SecondOccurrencesIn(a, b) ==
    IF a > b THEN <<>>
    ELSE IF a = b
         THEN IF Printable(Code(a)) /\ Occurrences(Code(a), a) = 2
              THEN <<Code(a)>>
              ELSE <<>>
    ELSE SecondOccurrencesIn(a, (a + b) \div 2)
             \o SecondOccurrencesIn(((a + b) \div 2) + 1, b)

\* The same among the first n input characters.
SecondOccurrences(n) == SecondOccurrencesIn(1, n)

\* d[1], ", ", d[2], ", ", ..., d[n]
Joined(d) ==
    [k \in 1..(IF Len(d) = 0 THEN 0 ELSE 3 * Len(d) - 2) |->
        IF k % 3 = 1 THEN d[(k + 2) \div 3] ELSE IF k % 3 = 2 THEN 44 ELSE 32]

\* The report for the whole input.
Report == <<123>> \o Joined(SecondOccurrences(Len(str.chars))) \o <<125, 10>>

ValidInput == ~str.null /\ Len(str.chars) > 0

-----------------------------------------------------------------------------
(* C1 *)

\* C1: for a non-empty input on which every write succeeds, the bytes in the
\* sink are '{', the printable characters that occur at least twice, each once,
\* in the order of their second occurrences, joined by ", ", then "}\n"; with
\* no repeated printable character the sink holds exactly "{}\n".
C1_ReportIsExact ==
    (pc = "done" /\ ValidInput /\ AllWritesComplete)
        => /\ Sink = Report
           /\ (\A c \in 32..126 : Occurrences(c, Len(str.chars)) < 2)
                  => Sink = <<123, 125, 10>>

\* "baab" was scanned: 'a' is met twice before 'b' is, the report is {a, b}.
C1_Witness ==
    /\ pc = "done" /\ ValidInput /\ AllWritesComplete /\ ret = 0
    /\ Len(SecondOccurrences(Len(str.chars))) = 2
    /\ str.chars = <<98, 97, 97, 98>>
    /\ Sink = <<123, 97, 44, 32, 98, 125, 10>>

-----------------------------------------------------------------------------
(* C2 *)

\* The same scan with one unbounded buffer that is flushed once, at the end.
\* Its state: st[c] is 0 (not seen), 1 (seen) or 2 (reported) for each code
\* c, out is the buffer.
SingleBufferStep(s, c) ==
    IF ~Printable(c) \/ s.st[c] = 2 THEN s
    ELSE IF s.st[c] = 0 THEN [s EXCEPT !.st[c] = 1]
    ELSE [st |-> [s.st EXCEPT ![c] = 2],
          out |-> IF Len(s.out) = 1 THEN Append(s.out, c)
                  ELSE s.out \o <<44, 32, c>>]

\* The state s after the input characters a..b.
RECURSIVE SingleBufferScan(_, _, _)
SingleBufferScan(s, a, b) ==
    IF a > b THEN s
    ELSE IF a = b THEN SingleBufferStep(s, Code(a))
    ELSE LET half == SingleBufferScan(s, a, (a + b) \div 2)
         IN  \* the buffer always holds '{': the test only evaluates half first
             IF Len(half.out) = 0 THEN half
             ELSE SingleBufferScan(half, ((a + b) \div 2) + 1, b)

SingleBufferOutput ==
    SingleBufferScan([st |-> [c \in 32..126 |-> 0], out |-> <<123>>],
                     1, Len(str.chars)).out \o <<125, 10>>

FinalWriteIssued == wlog # <<>> /\ wlog[Len(wlog)].at = "final"

\* C2: the chunks handed to write(), mid-scan flushes and final flush
\* together, concatenate to what the scan produces with a single unbounded
\* buffer; the chunk after a mid-scan flush begins with the separator ", ".
C2_FlushIndependent ==
    (pc = "done" /\ FinalWriteIssued)
        => /\ Requested = SingleBufferOutput
           /\ \A k \in 2..Len(wlog) :
                wlog[k - 1].at = "scan"
                    => SubSeq(wlog[k].data, 1, 2) = <<44, 32>>

\* A finished call that flushed in the middle of the scan.
C2_Witness ==
    /\ pc = "done" /\ FinalWriteIssued
    /\ Len(wlog) = 2 /\ wlog[1].at = "scan"
    /\ Len(wlog[1].data) + Len(wlog[2].data) > RESULT_BUFFER_SIZE

-----------------------------------------------------------------------------
(* C3, C4 *)

NoBrace(s) == \A k \in 1..Len(s) : s[k] # 123 /\ s[k] # 125

\* C3: with a null or empty input the call does not scan: it returns -1, no
\* character is examined, no tracking bit is set, the buffer is not begun and
\* neither '{' nor '}' reaches the sink.
C3_InvalidInputNotScanned ==
    (str.null \/ Len(str.chars) = 0)
        => /\ pc \in {"entry", "done"}
           /\ pc = "done" => ret = -1
           /\ pos = 0
           /\ \A b \in 0..63 : character_tracker[b] = 0
           /\ output_idx = 0
           /\ NoBrace(Requested) /\ NoBrace(Sink)

\* The call on the empty string has returned, its diagnostic in the sink.
C3_Witness ==
    /\ ~str.null /\ Len(str.chars) = 0
    /\ pc = "done" /\ ret = -1
    /\ Len(Sink) >= 30

\* C4: for a null or empty input whose write succeeds, the sink holds exactly
\* "Input string is null or empty" and one newline, 30 bytes.
C4_DiagnosticIsThirtyBytes ==
    (pc = "done" /\ ~ValidInput /\ AllWritesComplete)
        => /\ Len(Sink) = 30
           /\ Sink = DiagnosticText

-----------------------------------------------------------------------------
(* C5, C6, C7 *)

\* A write the sink rejected (write() returned -1).
Rejected(w) == w.n = -1

\* A write the sink completed only in part.
Partial(w) == w.n >= 0 /\ w.n < Len(w.data)

\* C5: once a write of the scan (mid-scan, pre-closing or final flush) fails,
\* rejected or completed in part, the call has returned -1 and that write
\* is its last.
C5_AbortOnFailedWrite ==
    \A k \in 1..Len(wlog) :
        (wlog[k].at # "diagnostic" /\ (Rejected(wlog[k]) \/ Partial(wlog[k])))
            => (k = Len(wlog) /\ pc = "done" /\ ret = -1)

\* The part of C5 the code does implement: a rejected write is the last
\* step of the call, the input position and the earlier writes stay.
RejectedWriteAborts ==
    \A k \in 1..Len(wlog) :
        Rejected(wlog[k]) => (k = Len(wlog) /\ pc = "done" /\ ret = -1)

\* C6: a write the sink completes only in part makes the call return -1, so
\* the call never returns 0 with less than the whole report in the sink.
C6_PartialWriteIsFailure ==
    /\ (pc = "done" /\ \E k \in 1..Len(wlog) : Partial(wlog[k])) => ret = -1
    /\ (pc = "done" /\ ret = 0) => Sink = Report

\* The closing "}\n" has reached the sink.
ClosingInSink ==
    /\ FinalWriteIssued
    /\ wlog[Len(wlog)].n = Len(wlog[Len(wlog)].data)

\* C7: the call returns 0 exactly when the input is non-empty and every
\* write succeeded, -1 otherwise; with -1 the closing "}\n" is not in the sink.
C7_ReturnValue ==
    pc = "done"
        => /\ ret \in {0, -1}
           /\ ret = 0 <=> (ValidInput /\ AllWritesComplete)
           /\ ret = -1 => ~ClosingInSink

\* The part of C7 the code does implement: 0 exactly when the input is
\* non-empty and no write() returned -1.
ReturnValueByRejection ==
    pc = "done"
        => /\ ret \in {0, -1}
           /\ ret = 0 <=> (ValidInput /\ \A k \in 1..Len(wlog) : ~Rejected(wlog[k]))
           /\ ret = -1 => ~ClosingInSink

-----------------------------------------------------------------------------
(* C8, C9 *)

\* The next character to be scanned lies outside 32..126.
AtNonPrintable ==
    pc = "scan" /\ pos < Len(str.chars) /\ ~Printable(Code(pos + 1))

\* C8: scanning a character outside 32..126 advances the input position and
\* changes nothing else, and issues no write.
C8_NonPrintableChangesNothing ==
    [][AtNonPrintable
         => /\ pos' = pos + 1
            /\ UNCHANGED <<character_tracker, result, output_idx,
                           is_first_duplicate, wlog, pc, ret, str>>]_vars

\* The byte 200 was scanned twice and left the call as Begin made it.
C8_Witness ==
    /\ pc = "scan" /\ pos = 2
    /\ Code(1) = 200 /\ Code(2) = 200
    /\ output_idx = 1 /\ wlog = <<>>
    /\ \A b \in 0..63 : character_tracker[b] = 0

\* The bytes emitted so far: those handed to write() and those pending.
Emitted == Requested \o [k \in 1..output_idx |-> result[k - 1]]

\* The symbols among them: '{' s1 ',' ' ' s2 ',' ' ' s3 ...
EmittedSymbols ==
    LET e == Emitted
    IN  [k \in 1..((Len(e) + 1) \div 3) |-> e[3 * k - 1]]

\* The next character to be scanned is printable and occurred twice already.
AtLaterOccurrence ==
    /\ pc = "scan" /\ pos < Len(str.chars)
    /\ Printable(Code(pos + 1))
    /\ Occurrences(Code(pos + 1), pos) >= 2

\* C9: during the scan the emitted symbols are the printable codes that occur
\* at least twice in the consumed prefix, each emitted once; a third or later
\* occurrence advances the input position and changes nothing else.
C9_EmittedOncePerDuplicate ==
    /\ [](pc = "scan"
            => LET es == EmittedSymbols
                   symbols == {es[k] : k \in 1..Len(es)}
               IN  /\ symbols = {c \in 32..126 : Occurrences(c, pos) >= 2}
                   /\ Cardinality(symbols) = Len(es))
    /\ [][AtLaterOccurrence
            => /\ pos' = pos + 1
               /\ UNCHANGED <<character_tracker, result, output_idx,
                              is_first_duplicate, wlog, pc, ret, str>>]_vars

\* "aaaa" was scanned: 'a' is emitted once.
C9_Witness ==
    /\ pc = "scan" /\ pos = 4
    /\ \A k \in 1..4 : Code(k) = 97
    /\ EmittedSymbols = <<97>>

-----------------------------------------------------------------------------
(* C10 *)

\* ' ', ", ", '!', ..., ", ", '~'
AllPrintableJoined == Joined([k \in 1..95 |-> 31 + k])

\* C10: for the driver's input, with every write succeeding, the sink holds
\* '{', the 95 printable characters in ascending order joined by ", ", and
\* "}\n", 286 bytes, delivered through more than one write.
C10_DriverOutput ==
    (pc = "done" /\ ~str.null /\ str.chars = MainInput /\ AllWritesComplete)
        => /\ Sink = <<123>> \o AllPrintableJoined \o <<125, 10>>
           /\ Len(Sink) = 286
           /\ Len(wlog) > 1
           /\ \A k \in 1..Len(wlog) : Len(wlog[k].data) <= 256

\* The driver's call returned 0 after two complete writes.
C10_Witness ==
    /\ pc = "done" /\ ret = 0
    /\ ~str.null /\ str.chars = MainInput
    /\ AllWritesComplete
    /\ Len(wlog) = 2 /\ Len(Sink) = 286

-----------------------------------------------------------------------------
(* C11: several calls, one after the other *)

\* The number of calls in a behaviour of SpecCalls.
MaxCalls == 3

\* The arguments of these calls: NULL, "aa", "baabaa\x1f", and two long inputs:
\* 86 doubled characters (one mid-scan flush) and 85 (a pre-closing flush).
CallInputs ==
    {[null |-> TRUE, chars |-> <<>>]}
    \cup {[null |-> FALSE, chars |-> s] :
            s \in {<<97, 97>>, <<98, 97, 97, 98, 97, 97, 31>>,
                   Doubled(VISIBLE_MAX - 85, VISIBLE_MAX),
                   Doubled(VISIBLE_MAX - 84, VISIBLE_MAX)}}

\* What is kept of a call that returned: its argument, what the sink received
\* and the value returned.  Of a call with a write that was not complete only
\* the fact is kept.
CallRecord ==
    IF AllWritesComplete
    THEN [ok |-> TRUE, str |-> str, out |-> Sink, ret |-> ret]
    ELSE [ok |-> FALSE, str |-> [null |-> TRUE, chars |-> <<>>], out |-> <<>>, ret |-> -1]

\* src/main.c line 12, again: the caller calls find_duplicates once more.  The
\* new call's locals are not initialized yet: they hold what the last call
\* left on the stack.
CallAgain ==
    /\ pc = "done"
    /\ Len(calls) + 1 < MaxCalls
    /\ calls' = Append(calls, CallRecord)
    /\ str' \in CallInputs
    /\ pc' = "entry"
    /\ pos' = 0
    /\ wlog' = <<>>
    /\ ret' = 0
    /\ UNCHANGED <<character_tracker, result, output_idx, is_first_duplicate>>

InitCalls ==
    /\ str \in CallInputs
    /\ pc = "entry"
    /\ pos = 0
    /\ character_tracker = [b \in 0..(TRACKER_SIZE - 1) |-> 0]
    /\ result = [k \in 0..(RESULT_BUFFER_SIZE - 1) |-> UNINIT]
    /\ output_idx = 0
    /\ is_first_duplicate = 1
    /\ wlog = <<>>
    /\ ret = 0
    /\ calls = <<>>

NextCalls ==
    \/ InvalidInput
    \/ Begin
    \/ SkipCharacter
    \/ MarkSeen
    \/ AlreadyReported
    \/ EmitDuplicate
    \/ EmitDuplicateFlush
    \/ EndOfScan
    \/ EndOfScanFlush
    \/ FinalFlush
    \/ CallAgain

SpecCalls == InitCalls /\ [][NextCalls]_vars

\* The calls that have returned, the current one included.
ReturnedCalls == IF pc = "done" THEN Append(calls, CallRecord) ELSE calls

\* C11: two calls on the same input whose writes all succeed leave the same
\* bytes in the sink and return the same value, whatever the calls before them
\* scanned.
C11_CallsAreIndependent ==
    \A i, j \in 1..Len(ReturnedCalls) :
        (ReturnedCalls[i].ok /\ ReturnedCalls[j].ok
            /\ ReturnedCalls[i].str = ReturnedCalls[j].str)
            => /\ ReturnedCalls[i].out = ReturnedCalls[j].out
               /\ ReturnedCalls[i].ret = ReturnedCalls[j].ret

\* "aa" was scanned, then "baabaa\x1f", then "aa" again: both calls on "aa"
\* wrote "{a}\n" and returned 0.
C11_Witness ==
    /\ pc = "done" /\ ret = 0 /\ AllWritesComplete
    /\ Len(calls) = 2
    /\ str.chars = <<97, 97>>
    /\ calls[1].ok /\ calls[1].str = str
    /\ calls[2].ok /\ Len(calls[2].str.chars) = 7
    /\ calls[1].out = <<123, 97, 125, 10>>
    /\ Sink = <<123, 97, 125, 10>>

-----------------------------------------------------------------------------
(* C12: termination *)

\* The call is one sequential thread: while it has a next step, it takes it.
SpecFair == Spec /\ WF_vars(Next)

\* What the call had done when it returned: refused the input, aborted at a
\* write that returned -1, or scanned the whole input and issued the final write.
ReturnedProperly ==
    \/ /\ ~ValidInput
       /\ pos = 0 /\ ret = -1
       /\ Len(wlog) = 1 /\ wlog[1].at = "diagnostic"
    \/ /\ ValidInput
       /\ wlog # <<>> /\ wlog[Len(wlog)].n = -1
       /\ \A k \in 1..(Len(wlog) - 1) : wlog[k].n # -1
       /\ ret = -1
    \/ /\ ValidInput
       /\ FinalWriteIssued
       /\ pos = Len(str.chars)
       /\ ret = 0

\* C12: the call returns; until then each step of the scan examines the next
\* input character, once and in order; on return it has either scanned the
\* whole input and issued the final write, or stopped at the invalid input or
\* at the first write that failed.
C12_CallReturns ==
    /\ <>(pc = "done")
    /\ [][/\ pos' \in {pos, pos + 1}
          /\ (pc = "scan" /\ pc' = "scan") => pos' = pos + 1
          /\ pos' = pos + 1 => (pc = "scan" /\ pos < Len(str.chars))]_vars
    /\ [](pc = "done" => ReturnedProperly)
    /\ [](pos <= Len(str.chars))

\* The call returned 0 at the end of a four-character input.
C12_Witness ==
    /\ pc = "done" /\ ret = 0
    /\ Len(str.chars) = 4 /\ pos = 4
    /\ FinalWriteIssued

-----------------------------------------------------------------------------
(* C13: the buffer *)

\* The number of bytes an output with n entries has before its closing "}\n".
OpenLength(n) == IF n = 0 THEN 1 ELSE 3 * n - 1

\* The bytes the call has appended to its buffer so far.
AppendedSoFar ==
    OpenLength(Cardinality({c \in 32..126 : Occurrences(c, pos) >= 2}))
        + (IF pc = "done" THEN 2 ELSE 0)

\* C13: output_idx never exceeds 256, every byte of the buffer below
\* output_idx is a cell of the array that was stored to, and every write passes
\* between 1 and 256 bytes, all of them stored, as many as were appended since
\* the previous flush.
C13_BufferNeverOverflows ==
    /\ output_idx >= 0 /\ output_idx <= 256
    /\ \A k \in 0..(output_idx - 1) : k < 256 /\ result[k] # UNINIT
    /\ \A k \in 1..Len(wlog) :
         /\ Len(wlog[k].data) >= 1 /\ Len(wlog[k].data) <= 256
         /\ \A j \in 1..Len(wlog[k].data) : wlog[k].data[j] # UNINIT
    /\ pc \in {"scan", "closing"} => Len(Requested) + output_idx = AppendedSoFar
    /\ (pc = "done" /\ FinalWriteIssued) => Len(Requested) = AppendedSoFar

\* 85 entries are pending: the buffer holds 254 bytes, its fullest.
C13_Witness ==
    /\ pc = "scan" /\ wlog = <<>>
    /\ output_idx = 254
    /\ Cardinality({c \in 32..126 : Occurrences(c, pos) >= 2}) = 85

-----------------------------------------------------------------------------
(* C14: when the buffer is flushed *)

\* The step about to be taken appends an entry: the next character is
\* printable and occurred exactly once before.
AtSecondOccurrence ==
    /\ pc = "scan" /\ pos < Len(str.chars)
    /\ Printable(Code(pos + 1))
    /\ Occurrences(Code(pos + 1), pos) = 1

\* The step about to be taken is the check before the closing sequence.
AtEndOfInput == pc = "scan" /\ pos = Len(str.chars)

\* The step issues a write.
Flushes == Len(wlog') = Len(wlog) + 1

\* C14 as claimed: the buffer is flushed before an entry only if its 3 bytes
\* would exceed the capacity, before the closing sequence only if its 2 bytes
\* would; bytes that fit, also exactly, are appended without a flush.
C14_FlushOnlyWhenExceeding ==
    /\ \A k \in 1..Len(wlog) :
         /\ wlog[k].at = "scan" => Len(wlog[k].data) + 3 > 256
         /\ wlog[k].at = "closing" => Len(wlog[k].data) + 2 > 256
    /\ (pc = "closing" /\ wlog = <<>>) => output_idx + 2 <= 256

\* C14, amended: the buffer is flushed before an entry exactly when
\* output_idx + 3 >= 256 and before the closing sequence exactly when
\* output_idx + 2 >= 256, that is unless the bytes leave at least one byte of
\* the buffer free; a flush that succeeds restarts the length at zero, and
\* without a flush the length only grows by the bytes appended.
C14_FlushAtThreshold ==
    [][/\ AtSecondOccurrence
            => /\ Flushes <=> output_idx + 3 >= 256
               /\ (Flushes /\ pc' = "scan") => output_idx' = 3
               /\ ~Flushes => output_idx' \in {output_idx + 1, output_idx + 3}
       /\ AtEndOfInput
            => /\ Flushes <=> output_idx + 2 >= 256
               /\ (Flushes /\ pc' = "closing") => output_idx' = 0
               /\ ~Flushes => output_idx' = output_idx]_vars

\* 254 bytes were pending at the end of the input: "}\n" would have filled the
\* buffer exactly, and the buffer was flushed first.
C14_Witness ==
    /\ pc = "closing"
    /\ Len(wlog) = 1 /\ wlog[1].at = "closing"
    /\ Len(wlog[1].data) = 254
    /\ output_idx = 0

-----------------------------------------------------------------------------
(* C15, C16: the tracking table *)

\* The table's layout: byte c / 4 holds, for the code c, the seen bit at
\* position c % 4 and the duplicate-emitted bit at position 4 + c % 4.
SeenBit(tr, c) ==
    IF tr[c \div 4] = 0 THEN 0 ELSE (tr[c \div 4] \div (2 ^ (c % 4))) % 2
EmittedBit(tr, c) ==
    IF tr[c \div 4] = 0 THEN 0 ELSE (tr[c \div 4] \div (2 ^ (4 + (c % 4)))) % 2

\* C15: a duplicate-emitted bit is set only with its seen bit, bits are set
\* only for the codes 32..126, no step of a call clears a bit, the table stays
\* an array of 64 bytes and every access to it uses an index inside it.
C15_TrackerInvariant ==
    /\ [](/\ DOMAIN character_tracker = 0..63
          /\ \A b \in 0..63 : character_tracker[b] \in 0..255
          /\ \A b \in 0..63 :
               \/ character_tracker[b] = 0
               \/ \A c \in (4 * b)..(4 * b + 3) :
                    /\ EmittedBit(character_tracker, c) = 1
                         => SeenBit(character_tracker, c) = 1
                    /\ c \notin 32..126
                         => /\ SeenBit(character_tracker, c) = 0
                            /\ EmittedBit(character_tracker, c) = 0
          /\ (pc = "scan" /\ pos < Len(str.chars) /\ Printable(Code(pos + 1)))
               => ByteIndex(Code(pos + 1)) \in 0..63)
    /\ [][\/ character_tracker' = character_tracker
          \/ \A b \in 0..63 :
               \/ character_tracker[b] = 0
               \/ \A c \in (4 * b)..(4 * b + 3) :
                    /\ SeenBit(character_tracker, c) = 1
                         => SeenBit(character_tracker', c) = 1
                    /\ EmittedBit(character_tracker, c) = 1
                         => EmittedBit(character_tracker', c) = 1]_vars

\* "aab" was scanned: 'a' is seen and emitted, 'b' is seen.
C15_Witness ==
    /\ pc = "scan" /\ pos = 3
    /\ SeenBit(character_tracker, 97) = 1 /\ EmittedBit(character_tracker, 97) = 1
    /\ SeenBit(character_tracker, 98) = 1 /\ EmittedBit(character_tracker, 98) = 0
    /\ character_tracker[24] = 38

\* A mask with exactly one of the 8 bits of a byte.
OneBit(m) == m \in {1, 2, 4, 8, 16, 32, 64, 128}

\* The next character to be scanned is printable.
AtPrintable == pc = "scan" /\ pos < Len(str.chars) /\ Printable(Code(pos + 1))

\* C16: the masks computed for a printable character select one bit each,
\* duplicate_mask is seen_mask << 4 without loss, and no other printable
\* character has either of these bits as its seen or its duplicate-emitted
\* bit; the step that scans the character leaves the bits of every other
\* code as they were.
C16_NoAliasing ==
    /\ [](AtPrintable
            => LET c == Code(pos + 1)
               IN  /\ OneBit(SeenMask(c)) /\ OneBit(DuplicateMask(c))
                   /\ DuplicateMask(c) = SeenMask(c) * 16
                   /\ SeenMask(c) # DuplicateMask(c)
                   /\ \A d \in (32..126) \ {c} :
                        ByteIndex(d) = ByteIndex(c)
                            => /\ SeenMask(d) # SeenMask(c)
                               /\ DuplicateMask(d) # DuplicateMask(c)
                               /\ SeenMask(d) # DuplicateMask(c)
                               /\ DuplicateMask(d) # SeenMask(c))
    /\ [][AtPrintable
            => \A b \in 0..63 :
                 IF b = Code(pos + 1) \div 4
                 THEN \A d \in ((4 * b)..(4 * b + 3)) \ {Code(pos + 1)} :
                        /\ SeenBit(character_tracker', d) = SeenBit(character_tracker, d)
                        /\ EmittedBit(character_tracker', d) = EmittedBit(character_tracker, d)
                 ELSE character_tracker'[b] = character_tracker[b]]_vars

\* "abab" was scanned: 'a' and 'b' share byte 24, which holds the four bits
\* of the two and no other.
C16_Witness ==
    /\ pc = "scan" /\ pos = 4
    /\ str.chars = <<97, 98, 97, 98>>
    /\ character_tracker[24] = 102
    /\ \A b \in (0..63) \ {24} : character_tracker[b] = 0

-----------------------------------------------------------------------------
(* C17: the separator flag *)

\* No code has its duplicate-emitted bit (one of the bits 4..7 of its byte).
NothingEmitted == \A b \in 0..63 : character_tracker[b] \div 16 = 0

\* C17: is_first_duplicate is 1 exactly while no duplicate-emitted bit is set;
\* and the bytes emitted so far, flushed or pending, are '{' and the emitted
\* symbols with ", " before each but the first, and nothing before the first.
C17_SeparatorFlag ==
    /\ is_first_duplicate \in {0, 1}
    /\ is_first_duplicate = 1 <=> NothingEmitted
    /\ pc \in {"scan", "closing"}
         => LET es == EmittedSymbols
            IN  /\ Emitted = <<123>> \o Joined(es)
                /\ Len(es) = 0 <=> is_first_duplicate = 1

\* The buffer was flushed and its length reset before the 86th entry, which
\* was appended with its separator: the buffer holds ", ", the entry, no more.
C17_Witness ==
    /\ pc = "scan"
    /\ Len(wlog) = 1 /\ wlog[1].at = "scan"
    /\ output_idx = 3
    /\ result[0] = 44 /\ result[1] = 32 /\ result[2] = Code(pos)
    /\ is_first_duplicate = 0

====
